---------------------------- MODULE Spec2Model ----------------------------
(***************************************************************************)
(* Pressure-based incompressible flux kernels of SU2                       *)
(* (CUpwPB_Flow, CCentJSTPB_Flow, CCentLaxPB_Flow, CPressureSource),       *)
(* src/SU2_CFD/include/variables/CDiscAdjVariable.hpp lines 302-656.       *)
(*                                                                         *)
(* su2double values are modelled exactly: a value is NaN, +Inf, -Inf or a  *)
(* finite number c0 + c1*I + c2*I^2 with rational c0, c1, c2 and           *)
(* I = (1/m)^0.3 for an integer base m (m = 1 for a rational number).      *)
(* Rounding is not modelled; the IEEE special values are.                  *)
(*                                                                         *)
(* Spec      one kernel with nVar = nDim: construct, set inputs, call      *)
(* SpecCtor  the same with nVar = nDim or nDim + 1                         *)
(* SpecConc  two threads calling CUpwPB_Flow::ComputeResidual, statement   *)
(*           by statement, on one instance                                 *)
(***************************************************************************)
EXTENDS Integers, Sequences, FiniteSets, TLC

(***************************************************************************)
(* Rational numbers <<n, d>>, d > 0, in lowest terms.                      *)
(***************************************************************************)
RECURSIVE GCD(_, _)
GCD(a, b) == IF b = 0 THEN a ELSE GCD(b, a % b)

IAbs(n) == IF n < 0 THEN -n ELSE n

RNorm(n, d) ==
  IF d = 1 THEN <<n, 1>>
  ELSE LET s == IF d < 0 THEN -1 ELSE 1
           g == GCD(IAbs(n), IAbs(d))
       IN  <<(s * n) \div g, (s * d) \div g>>

R(n) == <<n, 1>>

RAdd(a, b) == RNorm(a[1] * b[2] + b[1] * a[2], a[2] * b[2])

RNeg(a) == <<-a[1], a[2]>>

RMul(a, b) == RNorm(a[1] * b[1], a[2] * b[2])

\* a / b for b # 0
RDiv(a, b) == RNorm(a[1] * b[2], a[2] * b[1])

(***************************************************************************)
(* su2double values.                                                       *)
(***************************************************************************)
Zero3 == <<R(0), R(0), R(0)>>

NaN == [k |-> "nan", c |-> Zero3, m |-> 1]

PInf == [k |-> "pinf", c |-> Zero3, m |-> 1]

NInf == [k |-> "ninf", c |-> Zero3, m |-> 1]

\* a result the exact number domain cannot represent (never produced by the
\* inputs of this model: see NoUnrep)
Unrep == [k |-> "unrep", c |-> Zero3, m |-> 1]

Fin(c, m) ==
  [k |-> "fin", c |-> c, m |-> IF c[2] = R(0) /\ c[3] = R(0) THEN 1 ELSE m]

\* the rational n/d as a value
Q(n, d) == Fin(<<RNorm(n, d), R(0), R(0)>>, 1)

\* the integer n as a value (su2double(n))
D(n) == Q(n, 1)

IsFin(x) == x.k = "fin"

IsZero(x) == IsFin(x) /\ x.c = Zero3

IsRat(x) == IsFin(x) /\ x.m = 1

\* sign of a value: 1, -1, 0, or 2 when the model cannot tell
Sgn(x) ==
  CASE x.k = "pinf" -> 1
    [] x.k = "ninf" -> -1
    [] x.k = "fin" ->
         ( IF x.c = Zero3 THEN 0
           ELSE IF \A i \in 1..3 : x.c[i][1] >= 0 THEN 1
           ELSE IF \A i \in 1..3 : x.c[i][1] =< 0 THEN -1
           ELSE 2 )
    [] OTHER -> 2

InfOf(s) == IF s = 1 THEN PInf ELSE IF s = -1 THEN NInf ELSE Unrep

VNeg(x) ==
  CASE x.k = "fin" -> Fin(<<RNeg(x.c[1]), RNeg(x.c[2]), RNeg(x.c[3])>>, x.m)
    [] x.k = "pinf" -> NInf
    [] x.k = "ninf" -> PInf
    [] OTHER -> x

SameBase(a, b) == a.m = 1 \/ b.m = 1 \/ a.m = b.m

BaseOf(a, b) == IF a.m = 1 THEN b.m ELSE a.m

VAdd(a, b) ==
  CASE a.k = "unrep" \/ b.k = "unrep" -> Unrep
    [] a.k = "nan" \/ b.k = "nan" -> NaN
    [] a.k = "fin" /\ b.k = "fin" ->
         ( IF a.m = 1 /\ b.m = 1
           THEN [k |-> "fin", c |-> <<RAdd(a.c[1], b.c[1]), R(0), R(0)>>, m |-> 1]
           ELSE IF SameBase(a, b)
           THEN Fin(<<RAdd(a.c[1], b.c[1]), RAdd(a.c[2], b.c[2]),
                      RAdd(a.c[3], b.c[3])>>, BaseOf(a, b))
           ELSE Unrep )
    [] a.k = "fin" -> b
    [] b.k = "fin" -> a
    [] OTHER -> IF a.k = b.k THEN a ELSE NaN

VSub(a, b) == VAdd(a, VNeg(b))

\* coefficient of I^(k-1), k in 1..5, in the product of two finite values
MulCoef(a, b, k) ==
  CASE k = 1 -> RMul(a[1], b[1])
    [] k = 2 -> RAdd(RMul(a[1], b[2]), RMul(a[2], b[1]))
    [] k = 3 -> RAdd(RAdd(RMul(a[1], b[3]), RMul(a[2], b[2])), RMul(a[3], b[1]))
    [] k = 4 -> RAdd(RMul(a[2], b[3]), RMul(a[3], b[2]))
    [] OTHER -> RMul(a[3], b[3])

VMul(a, b) ==
  CASE a.k = "unrep" \/ b.k = "unrep" -> Unrep
    [] a.k = "nan" \/ b.k = "nan" -> NaN
    [] a.k = "fin" /\ b.k = "fin" ->
         ( IF a.m = 1 /\ b.m = 1
           THEN [k |-> "fin", c |-> <<RMul(a.c[1], b.c[1]), R(0), R(0)>>, m |-> 1]
           ELSE IF SameBase(a, b) /\ MulCoef(a.c, b.c, 4) = R(0)
                   /\ MulCoef(a.c, b.c, 5) = R(0)
           THEN Fin(<<MulCoef(a.c, b.c, 1), MulCoef(a.c, b.c, 2),
                      MulCoef(a.c, b.c, 3)>>, BaseOf(a, b))
           ELSE Unrep )
    [] OTHER -> IF IsZero(a) \/ IsZero(b) THEN NaN ELSE InfOf(Sgn(a) * Sgn(b))

\* the degrees (1..3) of the nonzero coefficients of a finite value
Degs(x) == {i \in 1..3 : x.c[i] # R(0)}

VDiv(a, b) ==
  CASE a.k = "unrep" \/ b.k = "unrep" -> Unrep
    [] a.k = "nan" \/ b.k = "nan" -> NaN
    [] a.k = "fin" /\ b.k = "fin" ->
         ( IF IsZero(b)
           THEN (IF IsZero(a) THEN NaN ELSE InfOf(Sgn(a)))
           ELSE IF SameBase(a, b) /\ Cardinality(Degs(b)) = 1
                   /\ \A i \in Degs(a) : \A j \in Degs(b) : i >= j
           THEN LET j == CHOOSE i \in Degs(b) : TRUE
                    co(i) == IF i + j - 1 \in 1..3
                             THEN RDiv(a.c[i + j - 1], b.c[j]) ELSE R(0)
                IN  Fin(<<co(1), co(2), co(3)>>, BaseOf(a, b))
           ELSE Unrep )
    [] a.k = "fin" -> D(0)
    [] b.k = "fin" -> (IF IsZero(b) THEN a ELSE InfOf(Sgn(a) * Sgn(b)))
    [] OTHER -> NaN

\* fabs
VAbs(x) == IF Sgn(x) = -1 THEN VNeg(x) ELSE IF Sgn(x) = 2 /\ x.k # "nan" THEN Unrep ELSE x

\* a > b for finite rational values; false when either is NaN
VGt(a, b) == IsFin(a) /\ IsFin(b) /\ Sgn(VSub(a, b)) = 1

\* std::max(a, b): (a < b) ? b : a
VMax(a, b) == IF VGt(b, a) THEN b ELSE a

\* 2^10: pow(2^10, 0.3) = 2^3 is the one rational power the bounded inputs reach
TenthPow == 2^10

\* pow(x, 0.3): exact for x = a/b with a a power of two dividing 2^10
VPow03(x) ==
  CASE x.k = "nan" -> NaN
    [] x.k = "unrep" -> Unrep
    [] x.k = "pinf" -> PInf
    [] x.k = "ninf" -> PInf
    [] OTHER ->
         ( IF ~IsRat(x) THEN Unrep
           ELSE LET a == x.c[1][1]
                    b == x.c[1][2]
                IN  IF a = 0 THEN D(0)
                    ELSE IF a < 0 THEN NaN
                    ELSE IF TenthPow % a # 0 \/ b >= TenthPow THEN Unrep
                    ELSE LET cmul == IF a = 1 THEN 1 ELSE TenthPow \div a
                             q == IF a = 1 THEN 1 ELSE 2^3
                             m == b * cmul
                         IN  IF m = 1 THEN D(q)
                             ELSE Fin(<<R(0), R(q), R(0)>>, m) )


(***************************************************************************)
(* Bounds and input samples.                                               *)
(***************************************************************************)
\* largest sum of the velocity components of a side state
MaxVel == 1

\* number of spatial dimensions of the modelled kernels (val_nDim)
Dim == 2

\* the velocity vectors of a side state
VelVals == {w \in (0..MaxVel) \X (0..MaxVel) : w[1] + w[2] =< MaxVel}

\* pressure and density of side j in the calls of the central kernels (side i
\* has pressure 10 and density 1)
SideJVals == {<<10, 1>>, <<20, 2>>}

DensityVals == {1, 2}

PressureVals == {10, 20}

NormalVals == {<<1, 0>>, <<0, 1>>, <<-1, 1>>, <<-1, -1>>}

\* Lambda_i, Lambda_j as the caller left them in the instance
LambdaVals == {<<0, 0>>, <<0, 4>>, <<4, 4>>, <<4, 4096>>}

SensorVals == {<<0, 0>>, <<1, 0>>}

NeighborVals == {<<1, 2>>, <<2, 2>>}

LaplVals == {<<0, 0>>, <<1, -1>>}

\* what the caller's output arrays hold before a call
StaleVals == {7}

\* values an uninitialised or out-of-range read can produce
JunkVals == {0, 5}

KernelKinds == {"Upw", "JST", "Lax", "PS"}

\* config->GetKappa_2nd_Flow(), GetKappa_4th_Flow(), GetKappa_1st_Flow()
Kappa_2nd_Flow == Q(1, 2)

Kappa_4th_Flow == Q(1, 50)

Kappa_1st_Flow == Q(3, 20)

VARIABLES
  phase,          \* "new", "constructed", "ready" (inputs set), "done" (call returned)
  kind,           \* which kernel class the instance is
  nVar,           \* CNumerics::nVar
  implicit,       \* the kernel's implicit flag
  V_i, V_j,       \* primitive arrays [pressure, velocity_0.., density]
  Normal,         \* face normal
  U_i, U_j,       \* conservative variables (momentum)
  Und_Lapl_i, Und_Lapl_j,
  Sensor_i, Sensor_j,
  Neighbor_i, Neighbor_j,
  Lambda_i, Lambda_j,
  val_residual,   \* caller's residual array
  val_Jacobian_i, val_Jacobian_j,   \* caller's Jacobian arrays
  jacWritten,     \* history: the call executed a store into a Jacobian array
  stale,          \* history: the value the output arrays held before the call
  insts,          \* the kernel instances that calls run on concurrently
  calls           \* the ComputeResidual calls in flight, one per thread

vars == <<phase, kind, nVar, implicit, V_i, V_j, Normal, U_i, U_j,
          Und_Lapl_i, Und_Lapl_j, Sensor_i, Sensor_j, Neighbor_i, Neighbor_j,
          Lambda_i, Lambda_j, val_residual, val_Jacobian_i, val_Jacobian_j,
          jacWritten, stale, insts, calls>>

\* what the single-call actions leave alone
fixedVars == <<stale, insts, calls>>

inputVars == <<V_i, V_j, Normal, U_i, U_j, Und_Lapl_i, Und_Lapl_j,
               Sensor_i, Sensor_j, Neighbor_i, Neighbor_j, Lambda_i, Lambda_j>>

kernelVars == <<kind, nVar, implicit>>

outputVars == <<val_residual, val_Jacobian_i, val_Jacobian_j, jacWritten>>

\* the members and arguments one ComputeResidual call reads
Cur ==
  [nVar |-> nVar, implicit |-> implicit, V_i |-> V_i, V_j |-> V_j,
   Normal |-> Normal, U_i |-> U_i, U_j |-> U_j,
   Und_Lapl_i |-> Und_Lapl_i, Und_Lapl_j |-> Und_Lapl_j,
   Sensor_i |-> Sensor_i, Sensor_j |-> Sensor_j,
   Neighbor_i |-> Neighbor_i, Neighbor_j |-> Neighbor_j,
   Lambda_i |-> Lambda_i, Lambda_j |-> Lambda_j,
   Jac_i |-> val_Jacobian_i, Jac_j |-> val_Jacobian_j, Res |-> val_residual]

(***************************************************************************)
(* Array helpers: C arrays are sequences, read with 0-based indices.       *)
(***************************************************************************)
\* arr[k] of the C code; an index past the array reads junk
Rd(arr, k, junk) == IF k + 1 \in DOMAIN arr THEN arr[k + 1] ELSE junk

Idx(n) == 0..(n - 1)

\* a C array of n entries given by f over 0..n-1
Arr(n, f(_)) ==
  CASE n = 0 -> <<>>
    [] n = 1 -> <<f(0)>>
    [] n = 2 -> <<f(0), f(1)>>
    [] n = 3 -> <<f(0), f(1), f(2)>>
    [] OTHER -> <<f(0), f(1), f(2), f(3)>>

\* sum of the entries of an array, in index order from 0.0
RECURSIVE SumSeq(_)
SumSeq(s) ==
  IF s = <<>> THEN D(0)
  ELSE VAdd(SumSeq(SubSeq(s, 1, Len(s) - 1)), s[Len(s)])


\* an input array entry as su2double; an index past the array reads junk
RdV(arr, k, junk) == D(Rd(arr, k, junk))

Half == Q(1, 2)

\* an n x n matrix holding x everywhere
Mat(n, x) == Arr(n, LAMBDA r : Arr(n, LAMBDA c : x))

(***************************************************************************)
(* CNumerics::GetInviscidPBProjFlux and GetInviscidPBProjJac: called by    *)
(* the kernels, defined outside the source file; modelled from section 4.1 *)
(* of the specification.                                                   *)
(***************************************************************************)
\* velocity . normal over the nDim components
ProjVel(velocity, normal) ==
  SumSeq(Arr(Dim, LAMBDA iDim : VMul(velocity[iDim + 1], D(normal[iDim + 1]))))

\* flux[k] = density*velocity[k]*(velocity . normal) + pressure*normal[k] for
\* k < nDim; the entries from nDim on of the scratch array are never written
GetInviscidPBProjFlux(density, velocity, pressure, normal, n, junk) ==
  Arr(n, LAMBDA k :
        IF k < Dim
        THEN VAdd(VMul(VMul(density, velocity[k + 1]), ProjVel(velocity, normal)),
                  VMul(pressure, D(normal[k + 1])))
        ELSE D(junk))

\* J[k][l] = scale*density*(delta_kl*(velocity . normal) + velocity[k]*normal[l])
\* for k, l < nDim, stored into Jac; the other entries of Jac are left alone
GetInviscidPBProjJac(density, velocity, normal, scale, Jac) ==
  Arr(Len(Jac), LAMBDA k : Arr(Len(Jac), LAMBDA l :
     IF k < Dim /\ l < Dim
     THEN VMul(VMul(scale, density),
               VAdd(IF k = l THEN ProjVel(velocity, normal) ELSE D(0),
                    VMul(velocity[k + 1], D(normal[l + 1]))))
     ELSE Jac[k + 1][l + 1]))

(***************************************************************************)
(* CUpwPB_Flow::ComputeResidual                                            *)
(***************************************************************************)
\* Velocity_i[iDim] = V_i[iDim+1], Velocity_j[iDim] = V_j[iDim+1]
VelocityOf(V) == Arr(Dim, LAMBDA iDim : D(V[iDim + 2]))

\* DensityInc_i = V_i[nDim+1]
DensityOf(V) == D(V[Dim + 2])

\* Pressure_i = V_i[0]
PressureOf(V) == D(V[1])

\* MeanVelocity[iDim] = 0.5*(Velocity_i[iDim] + Velocity_j[iDim])
MeanVelocityOf(s) ==
  Arr(Dim, LAMBDA iDim :
        VMul(Half, VAdd(VelocityOf(s.V_i)[iDim + 1], VelocityOf(s.V_j)[iDim + 1])))

\* MeanDensity = 0.5*(DensityInc_i + DensityInc_j)
MeanDensityOf(s) == VMul(Half, VAdd(DensityOf(s.V_i), DensityOf(s.V_j)))

\* MeanPressure = 0.5*(Pressure_i + Pressure_j)
MeanPressureOf(s) == VMul(Half, VAdd(PressureOf(s.V_i), PressureOf(s.V_j)))

\* Face_Flux = sum over iDim of MeanDensity*MeanVelocity[iDim]*Normal[iDim]
UpwFaceFlux(s) ==
  SumSeq(Arr(Dim, LAMBDA iDim :
               VMul(VMul(MeanDensityOf(s), MeanVelocityOf(s)[iDim + 1]),
                    D(s.Normal[iDim + 1]))))

\* variant: the donor sides exchanged
UpwResidualFromDonorSwapped(s, junk, Face_Flux) ==
  IF VGt(Face_Flux, D(0))
  THEN Arr(s.nVar, LAMBDA iVar : VMul(Face_Flux, RdV(s.V_j, iVar + 1, junk)))
  ELSE Arr(s.nVar, LAMBDA iVar : VMul(Face_Flux, RdV(s.V_i, iVar + 1, junk)))

\* lines 367-379: the residual loop of the branch Face_Flux > 0 or its else
UpwResidualFrom(s, junk, Face_Flux) ==
  IF VGt(Face_Flux, D(0))
  THEN Arr(s.nVar, LAMBDA iVar : VMul(Face_Flux, RdV(s.V_i, iVar + 1, junk)))
  ELSE Arr(s.nVar, LAMBDA iVar : VMul(Face_Flux, RdV(s.V_j, iVar + 1, junk)))

UpwResidual(s, junk) == UpwResidualFrom(s, junk, UpwFaceFlux(s))

\* variant: the tie Face_Flux = 0 given to side i (>= for >)
UpwJacobiansFromTieToI(s, Face_Flux) ==
  IF ~VGt(D(0), Face_Flux)
  THEN [i |-> GetInviscidPBProjJac(DensityOf(s.V_i), VelocityOf(s.V_i), s.Normal,
                                   D(1), Mat(s.nVar, D(0))),
        j |-> Mat(s.nVar, D(0)), wrote |-> TRUE]
  ELSE [i |-> Mat(s.nVar, D(0)),
        j |-> GetInviscidPBProjJac(DensityOf(s.V_j), VelocityOf(s.V_j), s.Normal,
                                   D(1), Mat(s.nVar, D(0))),
        wrote |-> TRUE]

\* lines 383-392: both Jacobians zeroed, then the donor's projected Jacobian
UpwJacobiansFrom(s, Face_Flux) ==
  IF VGt(Face_Flux, D(0))
  THEN [i |-> GetInviscidPBProjJac(DensityOf(s.V_i), VelocityOf(s.V_i), s.Normal,
                                   D(1), Mat(s.nVar, D(0))),
        j |-> Mat(s.nVar, D(0)), wrote |-> TRUE]
  ELSE [i |-> Mat(s.nVar, D(0)),
        j |-> GetInviscidPBProjJac(DensityOf(s.V_j), VelocityOf(s.V_j), s.Normal,
                                   D(1), Mat(s.nVar, D(0))),
        wrote |-> TRUE]

\* lines 381-394
UpwJacobians(s) ==
  IF ~s.implicit
  THEN [i |-> s.Jac_i, j |-> s.Jac_j, wrote |-> FALSE]
  ELSE UpwJacobiansFrom(s, UpwFaceFlux(s))

(***************************************************************************)
(* CPressureSource::ComputeResidual                                        *)
(***************************************************************************)
\* variant: the pressure of side i in place of the mean pressure
PressureSourceResidualSideI(s) ==
  Arr(Len(s.Res), LAMBDA iDim :
        IF iDim < Dim THEN VMul(PressureOf(s.V_i), D(s.Normal[iDim + 1]))
        ELSE s.Res[iDim + 1])

\* val_residual[iDim] = MeanPressure*Normal[iDim] for iDim < nDim
PressureSourceResidual(s) ==
  Arr(Len(s.Res), LAMBDA iDim :
        IF iDim < Dim THEN VMul(MeanPressureOf(s), D(s.Normal[iDim + 1]))
        ELSE s.Res[iDim + 1])


(***************************************************************************)
(* The dissipation scaling shared, statement for statement, by             *)
(* CCentJSTPB_Flow::ComputeResidual (lines 483-497) and                    *)
(* CCentLaxPB_Flow::ComputeResidual (lines 608-625).                       *)
(***************************************************************************)
\* ProjVelocity_i += Velocity_i[iDim]*Normal[iDim]
ProjVelocityOf(V, normal) == ProjVel(VelocityOf(V), normal)

\* Local_Lambda_i = fabs(2.0*ProjVelocity_i)
Local_LambdaOf(V, normal) == VAbs(VMul(D(2), ProjVelocityOf(V, normal)))

\* MeanLambda = 0.5*(Local_Lambda_i + Local_Lambda_j)
MeanLambdaOf(s) ==
  VMul(Half, VAdd(Local_LambdaOf(s.V_i, s.Normal), Local_LambdaOf(s.V_j, s.Normal)))

\* Phi_i = pow(Lambda_i/(4.0*MeanLambda), Param_p), Param_p = 0.3; Lambda_i is
\* the member the instance holds, not Local_Lambda_i
PhiOf(lambda, MeanLambda) == VPow03(VDiv(D(lambda), VMul(D(4), MeanLambda)))

\* StretchingFactor = 4.0*Phi_i*Phi_j/(Phi_i+Phi_j)
StretchingFactorFrom(Phi_i, Phi_j) ==
  VDiv(VMul(VMul(D(4), Phi_i), Phi_j), VAdd(Phi_i, Phi_j))

StretchingFactorAt(s, MeanLambda) ==
  StretchingFactorFrom(PhiOf(s.Lambda_i, MeanLambda), PhiOf(s.Lambda_j, MeanLambda))

StretchingFactorOf(s) == StretchingFactorAt(s, MeanLambdaOf(s))

\* sc2 = sc0 = 3.0*(Neighbor_i + Neighbor_j)/(Neighbor_i*Neighbor_j)
NeighborScale(s) ==
  VDiv(VMul(D(3), VAdd(D(s.Neighbor_i), D(s.Neighbor_j))),
       VMul(D(s.Neighbor_i), D(s.Neighbor_j)))

\* the central flux of the mean state, lines 455-463 and 578-590
CentProjFlux(s, junk) ==
  GetInviscidPBProjFlux(MeanDensityOf(s), MeanVelocityOf(s), MeanPressureOf(s),
                        s.Normal, s.nVar, junk)

\* lines 467-472 and 594-599: the 0.5-scaled Jacobian of the mean state stored
\* into val_Jacobian_i and copied entry by entry into val_Jacobian_j
CentInviscidJac(s) ==
  GetInviscidPBProjJac(MeanDensityOf(s), MeanVelocityOf(s), s.Normal, Half, s.Jac_i)

\* the diagonal of J shifted by x
AddDiag(J, x) ==
  Arr(Len(J), LAMBDA iVar : Arr(Len(J), LAMBDA jVar :
     IF iVar = jVar THEN VAdd(J[iVar + 1][jVar + 1], x) ELSE J[iVar + 1][jVar + 1]))

(***************************************************************************)
(* CCentJSTPB_Flow::ComputeResidual                                        *)
(***************************************************************************)
\* Epsilon_2 = Param_Kappa_2*0.5*(Sensor_i+Sensor_j)*sc2
JSTEpsilon_2(s, sc2) ==
  VMul(VMul(VMul(Kappa_2nd_Flow, Half), VAdd(D(s.Sensor_i), D(s.Sensor_j))), sc2)

\* Epsilon_4 = max(0.0, Param_Kappa_4-Epsilon_2)*sc4, sc4 = sc2*sc2/4.0
JSTEpsilon_4(Epsilon_2, sc2) ==
  VMul(VMax(D(0), VSub(Kappa_4th_Flow, Epsilon_2)), VDiv(VMul(sc2, sc2), D(4)))

\* Diff_U[iVar] = U_i[iVar]-U_j[iVar]
JSTDiff_U(s, iVar, junk) == VSub(RdV(s.U_i, iVar, junk), RdV(s.U_j, iVar, 0))

\* Diff_Lapl[iVar] = Und_Lapl_i[iVar]-Und_Lapl_j[iVar]
JSTDiff_Lapl(s, iVar, junk) ==
  VSub(RdV(s.Und_Lapl_i, iVar, junk), RdV(s.Und_Lapl_j, iVar, 0))

\* (Epsilon_2*Diff_U[iVar] - Epsilon_4*Diff_Lapl[iVar])*StretchingFactor*MeanLambda
JSTDissipation(Epsilon_2, Epsilon_4, Diff_U, Diff_Lapl, StretchingFactor, MeanLambda) ==
  VMul(VMul(VSub(VMul(Epsilon_2, Diff_U), VMul(Epsilon_4, Diff_Lapl)),
            StretchingFactor),
       MeanLambda)

\* the dissipation added to each val_residual[iVar], line 508
JSTDissipationArr(s, junk, Epsilon_2, StretchingFactor, MeanLambda) ==
  Arr(s.nVar, LAMBDA iVar :
        JSTDissipation(Epsilon_2, JSTEpsilon_4(Epsilon_2, NeighborScale(s)),
                       JSTDiff_U(s, iVar, junk), JSTDiff_Lapl(s, iVar, junk),
                       StretchingFactor, MeanLambda))

\* entry by entry sum of two arrays
ArrAdd(a, b) == Arr(Len(a), LAMBDA iVar : VAdd(a[iVar + 1], b[iVar + 1]))

\* val_residual[iVar] = ProjFlux[iVar], then += the dissipation
JSTResidual(s, junk) ==
  ArrAdd(CentProjFlux(s, junk),
         JSTDissipationArr(s, junk, JSTEpsilon_2(s, NeighborScale(s)),
                           StretchingFactorOf(s), MeanLambdaOf(s)))

\* variant: the neighbour count without the + 1
JSTcteNeighborOnly(Epsilon_2, Epsilon_4, neighbor, StretchingFactor, MeanLambda) ==
  VMul(VMul(VAdd(Epsilon_2, VMul(Epsilon_4, D(neighbor))), StretchingFactor),
       MeanLambda)

\* cte_0 = (Epsilon_2 + Epsilon_4*su2double(Neighbor_i+1))*StretchingFactor*MeanLambda
JSTcte(Epsilon_2, Epsilon_4, neighbor, StretchingFactor, MeanLambda) ==
  VMul(VMul(VAdd(Epsilon_2, VMul(Epsilon_4, D(neighbor + 1))), StretchingFactor),
       MeanLambda)

\* variant: cte_0 subtracted from val_Jacobian_j in place of cte_1
JSTJacobiansFromOneCte(J, cte_0, cte_1) ==
  [i |-> AddDiag(J, cte_0), j |-> AddDiag(J, VNeg(cte_0)), wrote |-> TRUE]

\* lines 514-517: val_Jacobian_i[iVar][iVar] += cte_0,
\* val_Jacobian_j[iVar][iVar] -= cte_1
JSTJacobiansFrom(J, cte_0, cte_1) ==
  [i |-> AddDiag(J, cte_0), j |-> AddDiag(J, VNeg(cte_1)), wrote |-> TRUE]

JSTJacobiansWith(s, Epsilon_2, Epsilon_4, StretchingFactor, MeanLambda) ==
  JSTJacobiansFrom(CentInviscidJac(s),
                   JSTcte(Epsilon_2, Epsilon_4, s.Neighbor_i, StretchingFactor, MeanLambda),
                   JSTcte(Epsilon_2, Epsilon_4, s.Neighbor_j, StretchingFactor, MeanLambda))

\* variant: the test of the implicit flag dropped
JSTJacobiansAlways(s) ==
  JSTJacobiansWith(s, JSTEpsilon_2(s, NeighborScale(s)),
                   JSTEpsilon_4(JSTEpsilon_2(s, NeighborScale(s)), NeighborScale(s)),
                   StretchingFactorOf(s), MeanLambdaOf(s))

\* lines 467-472 and 510-518
JSTJacobians(s) ==
  IF ~s.implicit
  THEN [i |-> s.Jac_i, j |-> s.Jac_j, wrote |-> FALSE]
  ELSE JSTJacobiansWith(s, JSTEpsilon_2(s, NeighborScale(s)),
                        JSTEpsilon_4(JSTEpsilon_2(s, NeighborScale(s)), NeighborScale(s)),
                        StretchingFactorOf(s), MeanLambdaOf(s))

(***************************************************************************)
(* CCentLaxPB_Flow::ComputeResidual                                        *)
(***************************************************************************)
\* su2double U_i[3] = {0.0,0.0,0.0}; U_i[iDim] = DensityInc_i*Velocity_i[iDim]
LaxU(V) ==
  Arr(3, LAMBDA iDim :
        IF iDim < Dim THEN VMul(DensityOf(V), VelocityOf(V)[iDim + 1]) ELSE D(0))

\* Diff_U[iVar] = U_i[iVar]-U_j[iVar]; the local arrays have 3 entries
LaxDiff_U(s, iVar, junk) ==
  IF iVar < 3 THEN VSub(LaxU(s.V_i)[iVar + 1], LaxU(s.V_j)[iVar + 1]) ELSE D(junk)

\* Epsilon_0 = Param_Kappa_0*sc0*su2double(nDim)/3.0
LaxEpsilon_0(s) == VDiv(VMul(VMul(Kappa_1st_Flow, NeighborScale(s)), D(Dim)), D(3))

\* Epsilon_0*Diff_U[iVar]*StretchingFactor*MeanLambda
LaxDissipation(Epsilon_0, Diff_U, StretchingFactor, MeanLambda) ==
  VMul(VMul(VMul(Epsilon_0, Diff_U), StretchingFactor), MeanLambda)

\* the dissipation added to each val_residual[iVar], line 632
LaxDissipationArr(s, junk, Epsilon_0, StretchingFactor, MeanLambda) ==
  Arr(s.nVar, LAMBDA iVar :
        LaxDissipation(Epsilon_0, LaxDiff_U(s, iVar, junk), StretchingFactor, MeanLambda))

LaxResidual(s, junk) ==
  ArrAdd(CentProjFlux(s, junk),
         LaxDissipationArr(s, junk, LaxEpsilon_0(s), StretchingFactorOf(s),
                           MeanLambdaOf(s)))

\* Epsilon_0*StretchingFactor*MeanLambda
Laxcte(Epsilon_0, StretchingFactor, MeanLambda) ==
  VMul(VMul(Epsilon_0, StretchingFactor), MeanLambda)

\* lines 635-638
LaxJacobiansFrom(J, cte) ==
  [i |-> AddDiag(J, cte), j |-> AddDiag(J, VNeg(cte)), wrote |-> TRUE]

\* lines 594-599 and 634-639
LaxJacobians(s) ==
  IF ~s.implicit
  THEN [i |-> s.Jac_i, j |-> s.Jac_j, wrote |-> FALSE]
  ELSE LaxJacobiansFrom(CentInviscidJac(s),
                        Laxcte(LaxEpsilon_0(s), StretchingFactorOf(s), MeanLambdaOf(s)))

(***************************************************************************)
(* The state machine: construct a kernel, set its inputs, call it once.    *)
(***************************************************************************)
\* one kernel before construction, its caller's arrays not yet allocated
InitKernel ==
  /\ phase = "new"
  /\ kind = "none"
  /\ nVar = 0
  /\ implicit = FALSE
  /\ V_i = <<0, 0, 0, 0>> /\ V_j = <<0, 0, 0, 0>>
  /\ Normal = <<0, 0>>
  /\ U_i = <<0, 0>> /\ U_j = <<0, 0>>
  /\ Und_Lapl_i = <<0, 0>> /\ Und_Lapl_j = <<0, 0>>
  /\ Sensor_i = 0 /\ Sensor_j = 0
  /\ Neighbor_i = 1 /\ Neighbor_j = 1
  /\ Lambda_i = 0 /\ Lambda_j = 0
  /\ val_residual = <<>>
  /\ val_Jacobian_i = <<>> /\ val_Jacobian_j = <<>>
  /\ jacWritten = FALSE
  /\ stale \in StaleVals

\* no concurrent call exists in the single-call runs
Init == InitKernel /\ insts = <<>> /\ calls = <<>>

\* the constructors (lines 302-325, 401-421, 522-540, 643): none of them
\* compares val_nVar with val_nDim; the caller's output arrays have nVar entries
Construct(k, val_nVar, imp) ==
  /\ phase = "new"
  /\ phase' = "constructed"
  /\ kind' = k
  /\ nVar' = val_nVar
  /\ implicit' = imp
  /\ val_residual' = Arr(val_nVar, LAMBDA iVar : D(stale))
  /\ val_Jacobian_i' = Mat(val_nVar, D(stale))
  /\ val_Jacobian_j' = Mat(val_nVar, D(stale))
  /\ UNCHANGED <<inputVars, jacWritten, fixedVars>>

\* U = density*velocity (the conservative state of the data model)
MomentumOf(V) == Arr(Dim, LAMBDA iDim : V[Dim + 2] * V[iDim + 2])

\* the caller's SetPrimitive, SetNormal, SetConservative
SetFlow(vi, vj, n) ==
  /\ V_i' = vi /\ V_j' = vj /\ Normal' = n
  /\ U_i' = MomentumOf(vi) /\ U_j' = MomentumOf(vj)

\* the primitive arrays [pressure, velocity_0, velocity_1, density]
Primitive(P, Vs, Rs) == {<<p, w[1], w[2], r>> : p \in P, w \in Vs, r \in Rs}

\* the caller's setters before a call of the upwind or pressure-source kernel
SetInputsPlain(Vs) ==
  /\ phase = "constructed"
  /\ kind \in {"Upw", "PS"}
  /\ phase' = "ready"
  /\ \E vi \in Primitive(IF kind = "PS" THEN PressureVals ELSE {10}, Vs, DensityVals),
        vj \in Primitive(IF kind = "PS" THEN PressureVals ELSE {20}, Vs, DensityVals),
        n \in NormalVals :
       SetFlow(vi, vj, n)
  /\ UNCHANGED <<kernelVars, outputVars, fixedVars, Und_Lapl_i, Und_Lapl_j,
                 Sensor_i, Sensor_j, Neighbor_i, Neighbor_j, Lambda_i, Lambda_j>>

\* the caller's setters before a call of a central kernel, with SetLambda,
\* SetNeighbor and, for JST, SetSensor and SetUndivided_Laplacian
SetInputsCentral(Vs) ==
  /\ phase = "constructed"
  /\ kind \in {"JST", "Lax"}
  /\ phase' = "ready"
  /\ \E vi \in Primitive({10}, Vs, {1}), w \in Vs, pr \in SideJVals, n \in NormalVals :
       SetFlow(vi, <<pr[1], w[1], w[2], pr[2]>>, n)
  /\ \E l \in LambdaVals : Lambda_i' = l[1] /\ Lambda_j' = l[2]
  /\ \E nb \in NeighborVals : Neighbor_i' = nb[1] /\ Neighbor_j' = nb[2]
  /\ \E se \in (IF kind = "JST" THEN SensorVals ELSE {<<0, 0>>}) :
       Sensor_i' = se[1] /\ Sensor_j' = se[2]
  /\ \E la \in (IF kind = "JST" THEN LaplVals ELSE {<<0, 0>>}) :
       Und_Lapl_i' = la /\ Und_Lapl_j' = <<0, 0>>
  /\ UNCHANGED <<kernelVars, outputVars, fixedVars>>

\* what a read past the nDim momentum components can return; no such read
\* happens when nVar = nDim
JunkReads(n) == IF n = Dim THEN {0} ELSE JunkVals

CUpwPB_Flow_ComputeResidual ==
  /\ phase = "ready" /\ kind = "Upw"
  /\ phase' = "done"
  /\ \E junk \in JunkReads(nVar) : val_residual' = UpwResidual(Cur, junk)
  /\ LET jac == UpwJacobians(Cur)
     IN  /\ val_Jacobian_i' = jac.i
         /\ val_Jacobian_j' = jac.j
         /\ jacWritten' = jac.wrote
  /\ UNCHANGED <<kernelVars, inputVars, fixedVars>>

CCentJSTPB_Flow_ComputeResidual ==
  /\ phase = "ready" /\ kind = "JST"
  /\ phase' = "done"
  /\ \E junk \in JunkReads(nVar) : val_residual' = JSTResidual(Cur, junk)
  /\ LET jac == JSTJacobians(Cur)
     IN  /\ val_Jacobian_i' = jac.i
         /\ val_Jacobian_j' = jac.j
         /\ jacWritten' = jac.wrote
  /\ UNCHANGED <<kernelVars, inputVars, fixedVars>>

CCentLaxPB_Flow_ComputeResidual ==
  /\ phase = "ready" /\ kind = "Lax"
  /\ phase' = "done"
  /\ \E junk \in JunkReads(nVar) : val_residual' = LaxResidual(Cur, junk)
  /\ LET jac == LaxJacobians(Cur)
     IN  /\ val_Jacobian_i' = jac.i
         /\ val_Jacobian_j' = jac.j
         /\ jacWritten' = jac.wrote
  /\ UNCHANGED <<kernelVars, inputVars, fixedVars>>

\* CPressureSource::ComputeResidual has no val_Jacobian_j and stores into no
\* Jacobian
CPressureSource_ComputeResidual ==
  /\ phase = "ready" /\ kind = "PS"
  /\ phase' = "done"
  /\ val_residual' = PressureSourceResidual(Cur)
  /\ UNCHANGED <<kernelVars, inputVars, fixedVars, val_Jacobian_i, val_Jacobian_j,
                 jacWritten>>

ConstructDim == \E k \in KernelKinds, imp \in BOOLEAN : Construct(k, Dim, imp)

SetInputs == SetInputsPlain(VelVals) \/ SetInputsCentral(VelVals)

ComputeResidual ==
  \/ CUpwPB_Flow_ComputeResidual
  \/ CCentJSTPB_Flow_ComputeResidual
  \/ CCentLaxPB_Flow_ComputeResidual
  \/ CPressureSource_ComputeResidual

Next == ConstructDim \/ SetInputs \/ ComputeResidual

Spec == Init /\ [][Next]_vars

\* the exact number domain represents every value the kernels produce
NoUnrep ==
  /\ \A k \in DOMAIN val_residual : val_residual[k].k # "unrep"
  /\ \A r \in DOMAIN val_Jacobian_i : \A c \in DOMAIN val_Jacobian_i[r] :
       val_Jacobian_i[r][c].k # "unrep" /\ val_Jacobian_j[r][c].k # "unrep"


(***************************************************************************)
(* Claims.  The expected values are written with integer arithmetic on the *)
(* inputs, apart from the projected-flux algebra of section 4.1.           *)
(***************************************************************************)
Done(k) == phase = "done" /\ kind = k

\* 4*massFlux, massFlux = meanDensity*(meanVelocity . normal) of the means
MassFlux4 ==
  (V_i[Dim + 2] + V_j[Dim + 2])
    * ((V_i[2] + V_j[2]) * Normal[1] + (V_i[3] + V_j[3]) * Normal[2])

\* the side the claims call the donor
Donor == IF MassFlux4 > 0 THEN V_i ELSE V_j

\* C1: after CUpwPB_Flow::ComputeResidual every residual component k equals
\* massFlux*velocity_i[k] when massFlux > 0 and massFlux*velocity_j[k] otherwise
C1_UpwindDonorResidual ==
  Done("Upw") =>
    \A k \in 1..Dim : val_residual[k] = Q(MassFlux4 * Donor[k + 1], 4)

\* a call with positive mass flux whose two sides differ in a velocity component
C1_Witness ==
  /\ Done("Upw") /\ MassFlux4 > 0
  /\ V_i[2] # V_j[2]
  /\ val_residual[1] # D(0)

ZeroMat == <<<<D(0), D(0)>>, <<D(0), D(0)>>>>

\* C2: in implicit mode the donor's Jacobian slot holds the projected-flux
\* Jacobian of the donor's density and velocity at scale 1.0, the other slot is
\* all zero, the donor is side i exactly when massFlux > 0 (side j on the tie),
\* and the residual is the flux of that same donor
C2_UpwindDonorJacobian ==
  (Done("Upw") /\ implicit) =>
    LET J == GetInviscidPBProjJac(DensityOf(Donor), VelocityOf(Donor), Normal,
                                  D(1), ZeroMat)
    IN  /\ (MassFlux4 > 0) => (val_Jacobian_i = J /\ val_Jacobian_j = ZeroMat)
        /\ (MassFlux4 =< 0) => (val_Jacobian_j = J /\ val_Jacobian_i = ZeroMat)
        /\ \A k \in 1..Dim : val_residual[k] = Q(MassFlux4 * Donor[k + 1], 4)

\* the tie: zero mass flux, side j's Jacobian written, side i's zeroed
C2_Witness ==
  /\ Done("Upw") /\ implicit /\ MassFlux4 = 0
  /\ val_Jacobian_j # ZeroMat
  /\ val_Jacobian_i = ZeroMat

StaleMat == <<<<D(stale), D(stale)>>, <<D(stale), D(stale)>>>>

\* C3: a call of the upwind, JST or Lax kernel stores into the Jacobian arrays
\* if and only if the kernel is implicit; otherwise both arrays keep every entry
C3_JacobianOnlyWhenImplicit ==
  (phase = "done" /\ kind \in {"Upw", "JST", "Lax"}) =>
    /\ jacWritten <=> implicit
    /\ ~implicit => (val_Jacobian_i = StaleMat /\ val_Jacobian_j = StaleMat)

\* an explicit JST call that changed the residual and kept the Jacobians
C3_Witness ==
  /\ Done("JST") /\ ~implicit /\ ~jacWritten
  /\ val_residual # <<D(stale), D(stale)>>
  /\ val_Jacobian_i = StaleMat

\* C4: CPressureSource::ComputeResidual sets residual[d] to
\* 0.5*(pressure_i + pressure_j)*normal[d] whatever the velocities, densities and
\* implicit flag, and stores into no Jacobian
C4_PressureSource ==
  Done("PS") =>
    /\ \A d \in 1..Dim : val_residual[d] = Q((V_i[1] + V_j[1]) * Normal[d], 2)
    /\ val_Jacobian_i = StaleMat /\ val_Jacobian_j = StaleMat /\ ~jacWritten

\* pressures 10 and 20 with normal [1,0] give [15,0], in implicit mode, with
\* sides that differ in velocity and density
C4_Witness ==
  /\ Done("PS") /\ implicit
  /\ V_i[1] = 10 /\ V_j[1] = 20 /\ Normal = <<1, 0>>
  /\ V_i[2] # V_j[2] /\ V_i[4] # V_j[4]
  /\ val_residual = <<D(15), D(0)>>


(***************************************************************************)
(* Relations between two calls: the second call is the kernel's operator   *)
(* applied to the transformed members of the first.                        *)
(***************************************************************************)
NegArr(a) == Arr(Len(a), LAMBDA k : VNeg(a[k + 1]))

NegMat(J) == Arr(Len(J), LAMBDA k : NegArr(J[k + 1]))

NegInts(a) == Arr(Len(a), LAMBDA k : -a[k + 1])

\* sides i and j exchanged and the normal negated; Lambda_i and Lambda_j are
\* exchanged too when withLambda
Swap(s, withLambda) ==
  [s EXCEPT !.V_i = s.V_j, !.V_j = s.V_i,
            !.U_i = s.U_j, !.U_j = s.U_i,
            !.Und_Lapl_i = s.Und_Lapl_j, !.Und_Lapl_j = s.Und_Lapl_i,
            !.Sensor_i = s.Sensor_j, !.Sensor_j = s.Sensor_i,
            !.Neighbor_i = s.Neighbor_j, !.Neighbor_j = s.Neighbor_i,
            !.Lambda_i = IF withLambda THEN s.Lambda_j ELSE s.Lambda_i,
            !.Lambda_j = IF withLambda THEN s.Lambda_i ELSE s.Lambda_j,
            !.Normal = NegInts(s.Normal)]

\* every component of the normal doubled
DoubleNormal(s) == [s EXCEPT !.Normal = Arr(Len(s.Normal), LAMBDA k : 2 * s.Normal[k + 1])]

\* what a call of kernel k returns for the members s
ResidualOf(k, s) ==
  CASE k = "Upw" -> UpwResidual(s, 0)
    [] k = "JST" -> JSTResidual(s, 0)
    [] k = "Lax" -> LaxResidual(s, 0)
    [] OTHER -> PressureSourceResidual(s)

JacobiansOf(k, s) ==
  CASE k = "Upw" -> UpwJacobians(s)
    [] k = "JST" -> JSTJacobians(s)
    [] k = "Lax" -> LaxJacobians(s)
    [] OTHER -> [i |-> s.Jac_i, j |-> s.Jac_j, wrote |-> FALSE]

CentralDone == phase = "done" /\ kind \in {"JST", "Lax"}

\* C5 as claimed: the exchanged call returns the negated residual, its side-i
\* Jacobian equal to the original side-j Jacobian and its side-j Jacobian equal
\* to the original side-i Jacobian
C5_SwapAsClaimed ==
  (CentralDone /\ implicit) =>
    \A withLambda \in BOOLEAN :
      LET jac == JacobiansOf(kind, Swap(Cur, withLambda))
      IN  /\ ResidualOf(kind, Swap(Cur, withLambda)) = NegArr(val_residual)
          /\ jac.i = val_Jacobian_j
          /\ jac.j = val_Jacobian_i

\* C5 amended: the exchanged call returns the negated residual and, in implicit
\* mode, the negated and exchanged Jacobians: its side-i Jacobian is minus the
\* original side-j Jacobian and its side-j Jacobian minus the original side-i
\* Jacobian (an entry that is NaN stays NaN)
C5_SwapNegatesAndExchanges ==
  CentralDone =>
    \A withLambda \in BOOLEAN :
      /\ ResidualOf(kind, Swap(Cur, withLambda)) = NegArr(val_residual)
      /\ implicit =>
           LET jac == JacobiansOf(kind, Swap(Cur, withLambda))
           IN  /\ jac.i = NegMat(val_Jacobian_j)
               /\ jac.j = NegMat(val_Jacobian_i)

\* an implicit JST call with finite outputs, a dissipation that is not zero and
\* Jacobians that differ on the diagonal by cte_0 + cte_1 with cte_0 # cte_1
C5_Witness ==
  /\ Done("JST") /\ implicit
  /\ Neighbor_i # Neighbor_j /\ Sensor_i = 0 /\ Sensor_j = 0
  /\ Lambda_i # Lambda_j
  /\ IsFin(val_residual[1]) /\ val_residual # CentProjFlux(Cur, 0)
  /\ IsFin(val_Jacobian_i[1][1])
  /\ VAdd(val_Jacobian_i[1][1], val_Jacobian_j[1][1]) # VMul(D(2), CentInviscidJac(Cur)[1][1])
  /\ val_Jacobian_i # NegMat(val_Jacobian_j)

Twice(a) == Arr(Len(a), LAMBDA k : VMul(D(2), a[k + 1]))

TwiceMat(J) == Arr(Len(J), LAMBDA k : Twice(J[k + 1]))

\* C6: for every kernel, doubling every component of the normal doubles every
\* residual component and, in implicit mode, every Jacobian entry
C6_NormalLinearity ==
  phase = "done" =>
    /\ ResidualOf(kind, DoubleNormal(Cur)) = Twice(val_residual)
    /\ (implicit /\ kind # "PS") =>
         LET jac == JacobiansOf(kind, DoubleNormal(Cur))
         IN  jac.i = TwiceMat(val_Jacobian_i) /\ jac.j = TwiceMat(val_Jacobian_j)

\* velocity, density and pressure equal on the two sides, both Laplacians zero
UniformFlow ==
  /\ V_i = V_j
  /\ Und_Lapl_i = <<0, 0>> /\ Und_Lapl_j = <<0, 0>>

\* C7: on a uniform flow the central kernels return the inviscid projected flux
\* of the (mean = side) state: the dissipation added is exactly zero
C7_UniformFlowNoDissipation ==
  (CentralDone /\ UniformFlow) =>
    val_residual = GetInviscidPBProjFlux(DensityOf(V_i), VelocityOf(V_i),
                                         PressureOf(V_i), Normal, Dim, 0)

\* velocity_i . normal = 0 and velocity_j . normal = 0
MeanLambdaIsZero ==
  /\ V_i[2] * Normal[1] + V_i[3] * Normal[2] = 0
  /\ V_j[2] * Normal[1] + V_j[3] * Normal[2] = 0

\* C8: with meanLambda = 0 the stretch factor and the residual of the central
\* kernels are well-defined (finite) values: no division by zero was executed
C8_MeanLambdaZeroGuarded ==
  (CentralDone /\ MeanLambdaIsZero) =>
    /\ IsFin(StretchingFactorOf(Cur))
    /\ \A k \in 1..Dim : IsFin(val_residual[k])

\* ---------------------------------------------------------------------------
\* construction with any number of variables

\* the velocities of the single-call runs with nVar free
CtorVelVals == {<<0, 1>>}

\* a constructor call with val_nVar = val_nDim or val_nVar = val_nDim + 1:
\* lines 302-325, 401-421, 522-540 and 643 accept both
ConstructAny ==
  \E k \in KernelKinds, val_nVar \in {Dim, Dim + 1}, imp \in BOOLEAN :
    Construct(k, val_nVar, imp)

SetInputsCtor == SetInputsPlain(CtorVelVals) \/ SetInputsCentral(CtorVelVals)

NextCtor == ConstructAny \/ SetInputsCtor \/ ComputeResidual

SpecCtor == Init /\ [][NextCtor]_vars

\* C9: construction with nVar # dim fails, so that no ComputeResidual call
\* ever completes on a kernel whose nVar differs from dim
C9_ConstructionFailsFast == (phase = "done") => (nVar = Dim)

\* ---------------------------------------------------------------------------
\* CUpwPB_Flow::ComputeResidual statement by statement: calls of several
\* threads on kernel instances.  Face_Flux, iDim, iVar, DensityInc_i/j,
\* Velocity_i/j and MeanVelocity are members of the instance; MeanDensity and
\* the output arrays belong to the call.

\* the threads, each making one call
Calls == {1, 2}

\* the two side states, and normals giving Face_Flux > 0, = 0 and < 0
ConcV_i == <<10, 1, 0, 1>>

ConcV_j == <<20, 0, 1, 2>>

ConcNormalVals == {<<1, 0>>, <<-1, 1>>, <<-1, -1>>}

\* every variable of the single-call runs
singleVars == <<phase, kernelVars, inputVars, outputVars, stale>>

\* a CUpwPB_Flow instance after its constructor (lines 302-325) and the
\* caller's setters; new su2double[nDim] leaves the velocity arrays with
\* whatever the heap held (u); every other scratch member is stored before it
\* is read
Instance(vi, vj, n, imp, u) ==
  [nVar |-> Dim, implicit |-> imp, V_i |-> vi, V_j |-> vj, Normal |-> n,
   DensityInc_i |-> D(0), DensityInc_j |-> D(0), Face_Flux |-> D(0),
   iDim |-> 0, iVar |-> 0,
   Velocity_i |-> <<D(u), D(u)>>, Velocity_j |-> <<D(u), D(u)>>,
   MeanVelocity |-> <<D(0), D(0)>>]

\* a call before it starts: its position, the instance it runs on, its local
\* MeanDensity, the register holding Face_Flux + term between the read and the
\* write of +=, the branch taken at line 367, the caller's output arrays, and
\* the history flag "no other call ran between this call's start and return"
NewCall(inst) ==
  [pc |-> "idle", self |-> inst, MeanDensity |-> D(0), sum |-> D(0),
   donor |-> "none",
   val_residual |-> <<D(stale), D(stale)>>,
   val_Jacobian_i |-> Mat(Dim, D(stale)), val_Jacobian_j |-> Mat(Dim, D(stale)),
   alone |-> TRUE]

InFlight(c) == c.pc \notin {"idle", "ret"}

\* arr[k] = x of the C code; a store past the array lands outside it
Wr(arr, k, x) == IF k + 1 \in DOMAIN arr THEN [arr EXCEPT ![k + 1] = x] ELSE arr

\* thread t takes one step: its call becomes c, its instance m
Step(t, c, m) ==
  LET busy == \E u \in Calls \ {t} : InFlight(calls[u])
  IN  /\ calls' = [u \in Calls |->
                     IF u = t THEN [c EXCEPT !.alone = @ /\ ~busy]
                     ELSE [calls[u] EXCEPT !.alone = @ /\ ~InFlight(calls[u])]]
      /\ insts' = [insts EXCEPT ![calls[t].self] = m]
      /\ UNCHANGED singleVars

\* variant: Face_Flux not reset at the start of a call
UpwResetKeepsFlux(m) ==
  [m EXCEPT !.DensityInc_i = D(m.V_i[Dim + 2]), !.DensityInc_j = D(m.V_j[Dim + 2])]

\* lines 352-354: DensityInc_i = V_i[nDim+1]; DensityInc_j = V_j[nDim+1];
\* Face_Flux = 0.0
UpwReset(m) ==
  [m EXCEPT !.DensityInc_i = D(m.V_i[Dim + 2]), !.DensityInc_j = D(m.V_j[Dim + 2]),
            !.Face_Flux = D(0)]

UpwEnter(t) ==
  LET c == calls[t]  m == insts[c.self]
  IN  /\ c.pc = "idle"
      /\ Step(t, [c EXCEPT !.pc = "for"], UpwReset(m))

\* line 355: iDim = 0
UpwForInit(t) ==
  LET c == calls[t]  m == insts[c.self]
  IN  /\ c.pc = "for"
      /\ Step(t, [c EXCEPT !.pc = "test"], [m EXCEPT !.iDim = 0])

\* line 355: iDim < nDim
UpwForTest(t) ==
  LET c == calls[t]  m == insts[c.self]
  IN  /\ c.pc = "test"
      /\ Step(t, [c EXCEPT !.pc = IF m.iDim < Dim THEN "body" ELSE "branch"], m)

\* lines 356-360: the stores of the loop body at the instance's iDim, and the
\* read side of Face_Flux += MeanDensity*MeanVelocity[iDim]*Normal[iDim];
\* with iDim >= nDim the reads of V and Normal run past the arrays
UpwBody(t) ==
  LET c == calls[t]  m == insts[c.self]
  IN  /\ c.pc = "body"
      /\ \E junk \in (IF m.iDim < Dim THEN {0} ELSE JunkVals) :
           LET vi == RdV(m.V_i, m.iDim + 1, junk)
               vj == RdV(m.V_j, m.iDim + 1, junk)
               mv == VMul(Half, VAdd(vi, vj))
               md == VMul(Half, VAdd(m.DensityInc_i, m.DensityInc_j))
           IN  Step(t,
                    [c EXCEPT !.pc = "add", !.MeanDensity = md,
                              !.sum = VAdd(m.Face_Flux,
                                           VMul(VMul(md, mv), RdV(m.Normal, m.iDim, junk)))],
                    [m EXCEPT !.Velocity_i = Wr(@, m.iDim, vi),
                              !.Velocity_j = Wr(@, m.iDim, vj),
                              !.MeanVelocity = Wr(@, m.iDim, mv)])

\* line 360: the write side of Face_Flux +=
UpwAdd(t) ==
  LET c == calls[t]  m == insts[c.self]
  IN  /\ c.pc = "add"
      /\ Step(t, [c EXCEPT !.pc = "incr"], [m EXCEPT !.Face_Flux = c.sum])

\* line 355: iDim++
UpwForIncr(t) ==
  LET c == calls[t]  m == insts[c.self]
  IN  /\ c.pc = "incr"
      /\ Step(t, [c EXCEPT !.pc = "test"], [m EXCEPT !.iDim = @ + 1])

\* line 367: if (Face_Flux > 0), and iVar = 0 of the loop of the branch taken
UpwBranch(t) ==
  LET c == calls[t]  m == insts[c.self]
  IN  /\ c.pc = "branch"
      /\ Step(t,
              [c EXCEPT !.pc = "rtest",
                        !.donor = IF VGt(m.Face_Flux, D(0)) THEN "i" ELSE "j"],
              [m EXCEPT !.iVar = 0])

\* lines 368, 375: iVar < nVar; after the loop, line 381: if (implicit)
UpwResTest(t) ==
  LET c == calls[t]  m == insts[c.self]
  IN  /\ c.pc = "rtest"
      /\ Step(t,
              [c EXCEPT !.pc = IF m.iVar < m.nVar THEN "store"
                               ELSE IF m.implicit THEN "jac" ELSE "ret"],
              m)

\* lines 369, 376: val_residual[iVar] = Face_Flux*V_i[iVar+1] (or V_j) at the
\* instance's iVar
UpwStore(t) ==
  LET c == calls[t]  m == insts[c.self]
  IN  /\ c.pc = "store"
      /\ \E junk \in (IF m.iVar + 1 < Len(m.V_i) THEN {0} ELSE JunkVals) :
           Step(t,
                [c EXCEPT !.pc = "rincr",
                          !.val_residual =
                             Wr(@, m.iVar,
                                VMul(m.Face_Flux,
                                     RdV(IF c.donor = "i" THEN m.V_i ELSE m.V_j,
                                         m.iVar + 1, junk)))],
                m)

\* lines 368, 375: iVar++
UpwResIncr(t) ==
  LET c == calls[t]  m == insts[c.self]
  IN  /\ c.pc = "rincr"
      /\ Step(t, [c EXCEPT !.pc = "rtest"], [m EXCEPT !.iVar = @ + 1])

\* lines 383-392 in one step: both Jacobians zeroed (the loops leave iVar at
\* nVar), then the projected Jacobian of the side chosen by the instance's
\* Face_Flux, from the instance's DensityInc and Velocity arrays
UpwJac(t) ==
  LET c == calls[t]  m == insts[c.self]
      zero == Mat(m.nVar, D(0))
  IN  /\ c.pc = "jac"
      /\ Step(t,
              IF VGt(m.Face_Flux, D(0))
              THEN [c EXCEPT !.pc = "ret",
                             !.val_Jacobian_i =
                                GetInviscidPBProjJac(m.DensityInc_i, m.Velocity_i,
                                                     m.Normal, D(1), zero),
                             !.val_Jacobian_j = zero]
              ELSE [c EXCEPT !.pc = "ret",
                             !.val_Jacobian_i = zero,
                             !.val_Jacobian_j =
                                GetInviscidPBProjJac(m.DensityInc_j, m.Velocity_j,
                                                     m.Normal, D(1), zero)],
              [m EXCEPT !.iVar = m.nVar])

\* two threads about to call ComputeResidual on the same instance, whose
\* inputs the setters have stored
InitConc ==
  /\ InitKernel
  /\ \E n \in ConcNormalVals, imp \in BOOLEAN :
       \E u \in (IF imp THEN JunkVals ELSE {0}) :
         insts = <<Instance(ConcV_i, ConcV_j, n, imp, u)>>
  /\ calls = [t \in Calls |-> NewCall(1)]

NextConc ==
  \E t \in Calls :
    \/ UpwEnter(t)
    \/ UpwForInit(t)
    \/ UpwForTest(t)
    \/ UpwBody(t)
    \/ UpwAdd(t)
    \/ UpwForIncr(t)
    \/ UpwBranch(t)
    \/ UpwResTest(t)
    \/ UpwStore(t)
    \/ UpwResIncr(t)
    \/ UpwJac(t)

SpecConc == InitConc /\ [][NextConc]_vars

\* the residual the call of thread t returns when it runs alone
AloneResidual(t) == UpwResidual(insts[calls[t].self], 0)

Returned(t) == calls[t].pc = "ret"

\* C10: calls on one shared instance are unsafe.  A call that no other call
\* overlapped returns the residual of a call run alone, also when it follows an
\* earlier call on the instance; C10_Witness is the interleaving in which a
\* call with the same inputs returns another residual
C10_WrongResidualOnlyWhenOverlapped ==
  \A t \in Calls :
    (Returned(t) /\ calls[t].alone) => calls[t].val_residual = AloneResidual(t)

\* both calls ran on the same instance with the same inputs, both returned,
\* no index ran past an array, and one call stored into every entry of its
\* residual array and returned a residual that is not the one it returns alone
C10_Witness ==
  /\ \A t \in Calls : Returned(t) /\ calls[t].self = 1
  /\ insts[1].iDim =< Dim /\ insts[1].iVar =< insts[1].nVar
  /\ \E t \in Calls :
       /\ ~calls[t].alone
       /\ \A k \in 1..Dim : calls[t].val_residual[k] # D(stale)
       /\ calls[t].val_residual # AloneResidual(t)

\* ---------------------------------------------------------------------------
\* one kernel instance per worker

\* variant: every worker's call runs on instance 1
NewCallOnFirst(inst) ==
  [pc |-> "idle", self |-> 1, MeanDensity |-> D(0), sum |-> D(0),
   donor |-> "none",
   val_residual |-> <<D(stale), D(stale)>>,
   val_Jacobian_i |-> Mat(Dim, D(stale)), val_Jacobian_j |-> Mat(Dim, D(stale)),
   alone |-> TRUE]

\* the call of worker t, on the instance of worker t, with its own output
\* arrays
WorkerCall(t) == NewCall(t)

\* each worker constructed its own CUpwPB_Flow instance and set the inputs of
\* its own face; the second face has the side states the other way round
InitWorkers ==
  /\ InitKernel
  /\ \E n1 \in ConcNormalVals, n2 \in ConcNormalVals,
        imp1 \in BOOLEAN, imp2 \in BOOLEAN :
       \E u1 \in (IF imp1 THEN JunkVals ELSE {0}),
          u2 \in (IF imp2 THEN JunkVals ELSE {0}) :
         insts = <<Instance(ConcV_i, ConcV_j, n1, imp1, u1),
                   Instance(ConcV_j, ConcV_i, n2, imp2, u2)>>
  /\ calls = [t \in Calls |-> WorkerCall(t)]

SpecWorkers == InitWorkers /\ [][NextConc]_vars

\* the Jacobians the call of thread t returns when it runs alone
AloneJacobians(t) ==
  LET m == insts[calls[t].self]
  IN  IF m.implicit
      THEN UpwJacobiansFrom(m, UpwFaceFlux(m))
      ELSE [i |-> StaleMat, j |-> StaleMat, wrote |-> FALSE]

\* C11: with one instance per worker and output arrays of its own, every call
\* returns, under every interleaving of the workers' steps, the residual and
\* the Jacobians it returns when run alone: the results depend on no order
C11_PerWorkerInstancesIndependent ==
  \A t \in Calls :
    Returned(t) =>
      /\ calls[t].val_residual = AloneResidual(t)
      /\ calls[t].val_Jacobian_i = AloneJacobians(t).i
      /\ calls[t].val_Jacobian_j = AloneJacobians(t).j

\* both workers returned, each from its own instance, their calls overlapped,
\* their faces differ and one of them ran the implicit block
C11_Witness ==
  /\ \A t \in Calls : Returned(t) /\ calls[t].self = t /\ ~calls[t].alone
  /\ AloneResidual(1) # AloneResidual(2)
  /\ \E t \in Calls : insts[t].implicit /\ calls[t].val_Jacobian_i # StaleMat

\* ---------------------------------------------------------------------------
\* the Jacobians of the JST kernel, from the inputs in integer arithmetic

\* 2*(velocity_i . normal + velocity_j . normal) = 4*(meanVelocity . normal)
MeanProj4 ==
  2 * ((V_i[2] + V_j[2]) * Normal[1] + (V_i[3] + V_j[3]) * Normal[2])

\* entry (k, l) of the 0.5-scaled projected-flux Jacobian of the mean state:
\* 0.5*meanDensity*(delta_kl*(meanVelocity . normal) + meanVelocity[k]*normal[l])
MeanInviscidEntry(k, l) ==
  Q((V_i[Dim + 2] + V_j[Dim + 2])
      * ((IF k = l THEN MeanProj4 ELSE 0) + 2 * (V_i[k + 1] + V_j[k + 1]) * Normal[l]),
    16)

\* eps2 = kappa2*0.5*(sensor_i + sensor_j)*sc2, sc2 = 3*(n_i + n_j)/(n_i*n_j)
Eps2 ==
  VMul(Kappa_2nd_Flow,
       Q(3 * (Sensor_i + Sensor_j) * (Neighbor_i + Neighbor_j),
         2 * Neighbor_i * Neighbor_j))

\* sc4 = sc2*sc2/4
Sc4 ==
  Q(9 * (Neighbor_i + Neighbor_j) * (Neighbor_i + Neighbor_j),
    4 * Neighbor_i * Neighbor_i * Neighbor_j * Neighbor_j)

\* eps4 = max(0, kappa4 - eps2)*sc4
Eps4 ==
  IF VGt(Kappa_4th_Flow, Eps2) THEN VMul(VSub(Kappa_4th_Flow, Eps2), Sc4) ELSE D(0)

\* meanLambda = 0.5*(|2*(velocity_i . normal)| + |2*(velocity_j . normal)|)
MeanLambdaInt ==
  IAbs(V_i[2] * Normal[1] + V_i[3] * Normal[2])
    + IAbs(V_j[2] * Normal[1] + V_j[3] * Normal[2])

\* (eps2 + eps4*(n + 1))*stretch*meanLambda, stretch the StretchingFactor of
\* line 497
DiagTerm(n) ==
  VMul(VMul(VAdd(Eps2, VMul(Eps4, D(n + 1))), StretchingFactorOf(Cur)),
       D(MeanLambdaInt))

\* C12: after an implicit JST call both Jacobians have the off-diagonal
\* entries of the 0.5-scaled projected-flux Jacobian of the mean state; the
\* diagonal of side i is that entry plus (eps2 + eps4*(n_i+1))*stretch*meanLambda,
\* the diagonal of side j that entry minus (eps2 + eps4*(n_j+1))*stretch*meanLambda;
\* eps4 >= 0, and eps4 = 0 whenever eps2 >= kappa4
C12_JSTJacobianStructure ==
  (Done("JST") /\ implicit) =>
    /\ \A k \in 1..Dim : \A l \in 1..Dim :
         IF k = l
         THEN /\ val_Jacobian_i[k][k] = VAdd(MeanInviscidEntry(k, k), DiagTerm(Neighbor_i))
              /\ val_Jacobian_j[k][k] = VSub(MeanInviscidEntry(k, k), DiagTerm(Neighbor_j))
         ELSE /\ val_Jacobian_i[k][l] = MeanInviscidEntry(k, l)
              /\ val_Jacobian_j[k][l] = MeanInviscidEntry(k, l)
    /\ ~VGt(D(0), Eps4)
    /\ ~VGt(Kappa_4th_Flow, Eps2) => Eps4 = D(0)

\* an implicit JST call with eps4 > 0, different neighbour counts, a non-zero
\* off-diagonal entry and finite diagonal terms that differ between the sides
C12_Witness ==
  /\ Done("JST") /\ implicit
  /\ VGt(Eps4, D(0))
  /\ Neighbor_i # Neighbor_j
  /\ val_Jacobian_i[1][2] # D(0)
  /\ IsFin(DiagTerm(Neighbor_i)) /\ IsFin(DiagTerm(Neighbor_j))
  /\ VGt(DiagTerm(Neighbor_j), DiagTerm(Neighbor_i))
  /\ VGt(DiagTerm(Neighbor_i), D(0))

\* ---------------------------------------------------------------------------
\* the outputs as a function of the inputs of the call

\* the members s with the spectral radii of the same call in Lambda_i and
\* Lambda_j: lambda_i = |2*(velocity_i . normal)|, lambda_j likewise
WithLocalLambda(s) ==
  [s EXCEPT !.Lambda_i = 2 * IAbs(s.V_i[2] * s.Normal[1] + s.V_i[3] * s.Normal[2]),
            !.Lambda_j = 2 * IAbs(s.V_j[2] * s.Normal[1] + s.V_j[3] * s.Normal[2])]

\* C13: the residual and, in implicit mode, the Jacobians of a call are a
\* function of the side states, the normal, the sensors, the Laplacians, the
\* neighbour counts and the configuration alone, the blending factors being
\* those of the spectral radii of the same call
C13_StatelessPerCall ==
  (phase = "done") =>
    /\ val_residual = ResidualOf(kind, WithLocalLambda(Cur))
    /\ implicit =>
         LET jac == JacobiansOf(kind, WithLocalLambda(Cur))
         IN  val_Jacobian_i = jac.i /\ val_Jacobian_j = jac.j
====
